---- MODULE Spec2Model ----
(***************************************************************************)
(* Shaper2D (src/main.rs): the polygon notation "n" / "n/k", its parser    *)
(* and renderer (Polygon::from_str, Polygon::to_string), and the Bevy      *)
(* systems that edit the notation, zoom, and regenerate the star polygon.  *)
(*                                                                         *)
(* A string is a sequence of one-character strings: "5/2" is               *)
(* <<"5", "/", "2">>.  Indices reported by the program are zero-based,     *)
(* TLA+ sequences are one-based.                                           *)
(***************************************************************************)
EXTENDS Integers, Sequences, FiniteSets, TLC

VARIABLES
    input,      \* pure-function specifications: the string handed to from_str
    poly,       \* pure-function specifications: the Polygon handed to to_string
    result,     \* pure-function specifications: what from_str returned
    rerendered, \* pure-function specifications: to_string of the re-parsed polygon
    pstep       \* pure-function specifications: which step comes next

pvars == <<input, poly, result, rerendered, pstep>>

VARIABLES
    pc,             \* "startup" (before the startup stage), "idle" (between
                    \* frames) or "update" (inside the Update stage of a frame)
    todo,           \* the systems of the Update stage that have not run yet
    data,           \* the Data resource: polygon and scale
    text,           \* the sections of the Text of the InputText entity
    world,          \* the entities alive
    commands,       \* the Commands queued in the current stage
    redraw_events,  \* Events<Redraw>: the two buffers and the reader of redraw
    drawn,          \* history: the polygon and scale the latest create_shape read
    parsed          \* history: the polygon of the latest successful parse

avars == <<pc, todo, data, text, world, commands, redraw_events, drawn, parsed>>

vars == <<pvars, avars>>

(***************************************************************************)
(* Bounds of the model.                                                    *)
(***************************************************************************)
\* Longest input string enumerated exhaustively over Alphabet.
MaxLen == 3
\* Longest input string enumerated exhaustively over SlashAlphabet.
MaxSlashLen == 6
\* Largest n and k of the polygons rendered and re-parsed.
MaxVal == 30
\* Most keys reported just pressed in one frame.
MaxPressed == 2
\* Longest text buffer typed.
MaxBuf == 3
\* Largest n and k typed.
MaxN == 12
\* Most MouseWheel events in one frame.
MaxScroll == 1
\* The zoom stays between the initial scale and MaxZoom scroll lines above it.
MaxZoom == 1
\* Largest n and k of the polygons whose shape is generated on its own.
MaxShape == 7

(***************************************************************************)
(* Characters.                                                             *)
(***************************************************************************)
DigitChars == <<"0", "1", "2", "3", "4", "5", "6", "7", "8", "9">>

IsDigit(c) == \E d \in 1..10 : DigitChars[d] = c

\* char::to_digit(10) of a digit character
to_digit(c) == (CHOOSE d \in 1..10 : DigitChars[d] = c) - 1

\* The characters inputs are built from: the digits, the separator, the sign
\* characters integer parsing looks at, and one character that is none of these.
Alphabet == {DigitChars[d] : d \in 1..10} \cup {"/", "+", "-", "x"}

\* The characters of the longer inputs: one digit and the separator, which
\* give every arrangement of separators.
SlashAlphabet == {"7", "/"}

(***************************************************************************)
(* usize: str::parse::<usize>() and format!("{}", usize).                  *)
(***************************************************************************)
\* usize::MAX = 2^64 - 1 = 18446744073709551615, as decimal digits: the value
\* itself does not fit TLC's integers, so overflow is decided on the digits.
USIZE_MAX_DIGITS ==
    <<1, 8, 4, 4, 6, 7, 4, 4, 0, 7, 3, 7, 0, 9, 5, 5, 1, 6, 1, 5>>

RECURSIVE strip_zeros(_)
strip_zeros(ds) ==
    IF ds # <<>> /\ Head(ds) = "0" THEN strip_zeros(Tail(ds)) ELSE ds

\* ds (digit characters, no leading zero) > USIZE_MAX_DIGITS, both of length 20
RECURSIVE digits_greater(_, _)
digits_greater(ds, i) ==
    IF i > Len(ds) THEN FALSE
    ELSE IF to_digit(ds[i]) # USIZE_MAX_DIGITS[i]
         THEN to_digit(ds[i]) > USIZE_MAX_DIGITS[i]
         ELSE digits_greater(ds, i + 1)

\* checked_mul(10) / checked_add(digit) fails somewhere along the digits
overflows(ds) ==
    LET sig == strip_zeros(ds) IN
        \/ Len(sig) > Len(USIZE_MAX_DIGITS)
        \/ Len(sig) = Len(USIZE_MAX_DIGITS) /\ digits_greater(sig, 1)

\* accumulate without the multiplication by the radix
RECURSIVE accumulate_no_shift(_, _)
accumulate_no_shift(ds, acc) ==
    IF ds = <<>> THEN acc
    ELSE accumulate_no_shift(Tail(ds), acc + to_digit(Head(ds)))

\* result = result * 10 + digit, digit by digit from the left
RECURSIVE accumulate(_, _)
accumulate(ds, acc) ==
    IF ds = <<>> THEN acc
    ELSE accumulate(Tail(ds), acc * 10 + to_digit(Head(ds)))

ParseOk(v) == [ok |-> TRUE, v |-> v]
ParseErr == [ok |-> FALSE, v |-> 0]

\* <usize as FromStr>::from_str: empty is an error; one leading '+' is
\* skipped ('-' is not, usize being unsigned); a lone sign is an error; every
\* remaining character must be a digit; the value must fit a usize.
parse_usize(src) ==
    IF src = <<>> THEN ParseErr
    ELSE LET digits == IF Head(src) = "+" THEN Tail(src) ELSE src IN
         IF digits = <<>> THEN ParseErr
         ELSE IF \E i \in 1..Len(digits) : ~IsDigit(digits[i]) THEN ParseErr
         ELSE IF overflows(digits) THEN ParseErr
         ELSE ParseOk(accumulate(digits, 0))

\* format!("{}", v) for a usize: the decimal digits, most significant first
RECURSIVE fmt_usize(_)
fmt_usize(v) ==
    IF v < 10 THEN <<DigitChars[v + 1]>>
    ELSE Append(fmt_usize(v \div 10), DigitChars[(v % 10) + 1])

(***************************************************************************)
(* Polygon, ToString for Polygon, FromStr for Polygon.                     *)
(***************************************************************************)
Polygon(n, k) == [n |-> n, k |-> k]

\* Result<Polygon, usize>
Ok(p) == [ok |-> TRUE, p |-> p, err |-> 0]
Err(i) == [ok |-> FALSE, p |-> Polygon(0, 0), err |-> i]

\* to_string that omits the divisor for k <= 1 instead of k == 1
to_string_omit_small(p) ==
    IF p.k <= 1 THEN fmt_usize(p.n)
    ELSE fmt_usize(p.n) \o <<"/">> \o fmt_usize(p.k)

to_string(p) ==
    IF p.k = 1 THEN fmt_usize(p.n)
    ELSE fmt_usize(p.n) \o <<"/">> \o fmt_usize(p.k)

\* s.split('/').collect(): the sections between the separators, empty ones kept
RECURSIVE split(_, _, _)
split(s, i, cur) ==
    IF i > Len(s) THEN <<cur>>
    ELSE IF s[i] = "/" THEN <<cur>> \o split(s, i + 1, <<>>)
    ELSE split(s, i + 1, Append(cur, s[i]))

\* find that reports the one-based position of the first separator
find_slash_one_based(s) == CHOOSE i \in 1..Len(s) : s[i] = "/" /\ \A j \in 1..(i - 1) : s[j] # "/"

\* s.find('/').unwrap(): zero-based index of the first separator
find_slash(s) == (CHOOSE i \in 1..Len(s) : s[i] = "/" /\ \A j \in 1..(i - 1) : s[j] # "/") - 1

\* the loop with index incremented before the test of slashes == 2
RECURSIVE scan_increment_first(_, _, _, _)
scan_increment_first(s, i, index, slashes) ==
    IF i > Len(s) THEN index
    ELSE LET sl == IF s[i] = "/" THEN slashes + 1 ELSE slashes IN
         IF sl = 2 THEN index + 1
         ELSE scan_increment_first(s, i + 1, index + 1, sl)

\* the loop with slashes counted after the test of slashes == 2
RECURSIVE scan_count_late(_, _, _, _)
scan_count_late(s, i, index, slashes) ==
    IF i > Len(s) THEN index
    ELSE IF slashes = 2 THEN index
    ELSE scan_count_late(s, i + 1, index + 1,
                         IF s[i] = "/" THEN slashes + 1 ELSE slashes)

\* the loop of the last branch: index counts the characters passed before the
\* separator that makes slashes == 2
RECURSIVE scan(_, _, _, _)
scan(s, i, index, slashes) ==
    IF i > Len(s) THEN index
    ELSE LET sl == IF s[i] = "/" THEN slashes + 1 ELSE slashes IN
         IF sl = 2 THEN index
         ELSE scan(s, i + 1, index + 1, sl)

from_str(s) ==
    LET sections == split(s, 1, <<>>) IN
    IF Len(sections) = 1 THEN
        LET n == parse_usize(sections[1]) IN
        IF n.ok THEN Ok(Polygon(n.v, 1)) ELSE Err(0)
    ELSE IF Len(sections) = 2 THEN
        LET n == parse_usize(sections[1]) IN
        IF n.ok THEN
            LET k == parse_usize(sections[2]) IN
            IF k.ok THEN Ok(Polygon(n.v, k.v))
            ELSE Err(find_slash(s) + 1)
        ELSE Err(0)
    ELSE Err(scan(s, 1, 0, 0))

(***************************************************************************)
(* The application: resources, entities, events.                           *)
(***************************************************************************)
\* Data::from_world.  The f32 scale is kept as its exponent e in hundredths
\* of a scroll line: scale = 100.0 * 1.1^(e / 100), so the initial 100.0 is 0
\* and multiplying by 1.1^scroll adds 100 * scroll.
from_world == [polygon |-> Polygon(5, 2), scale |-> 0]

\* An entity: its id, the marker component it carries, and for a shape entity
\* where it lies: the vertex at angle index `at` (in turns of TAU/n) of the
\* circle of radius `scale`; the line from angle index `at` to angle index `to`.
Entity(id, tag, at, to, scale) ==
    [id |-> id, tag |-> tag, at |-> at, to |-> to, scale |-> scale]

Spawn(e) == [op |-> "spawn", id |-> e.id, e |-> e]
Despawn(id) == [op |-> "despawn", id |-> id, e |-> Entity(id, "", 0, 0, 0)]

\* commands.spawn_bundle reserves an id at once: one that no live entity and
\* no entity spawned earlier in this stage has
fresh_id(alive, cmds) ==
    LET used == {e.id : e \in alive} \cup
                {cmds[i].id : i \in {j \in 1..Len(cmds) : cmds[j].op = "spawn"}}
    IN  CHOOSE id \in 0..Cardinality(used) :
            id \notin used /\ \A j \in 0..(id - 1) : j \in used

\* the loop with the end of each line one step ahead whatever k is
RECURSIVE shape_loop_adjacent(_, _, _, _, _)
shape_loop_adjacent(i, previous, d, alive, cmds) ==
    IF i >= d.polygon.n THEN cmds
    ELSE LET vertex == Entity(fresh_id(alive, cmds), "Vertex",
                              previous, previous, d.scale)
             c1 == Append(cmds, Spawn(vertex))
             line == Entity(fresh_id(alive, c1), "Line", previous,
                            (previous + 1) % d.polygon.n, d.scale)
             c2 == Append(c1, Spawn(line))
         IN  shape_loop_adjacent(i + 1, (previous + 1) % d.polygon.n, d, alive, c2)

\* the for loop of create_shape: `previous` is the running unit vector, as an
\* angle index; angle.rotate advances it one step, line_angle.rotate k steps
RECURSIVE shape_loop(_, _, _, _, _)
shape_loop(i, previous, d, alive, cmds) ==
    IF i >= d.polygon.n THEN cmds
    ELSE LET vertex == Entity(fresh_id(alive, cmds), "Vertex",
                              previous, previous, d.scale)
             c1 == Append(cmds, Spawn(vertex))
             line == Entity(fresh_id(alive, c1), "Line", previous,
                            (previous + d.polygon.k) % d.polygon.n, d.scale)
             c2 == Append(c1, Spawn(line))
         IN  shape_loop(i + 1, (previous + 1) % d.polygon.n, d, alive, c2)

\* create_shape: the commands it adds to cmds
create_shape(d, alive, cmds) == shape_loop(0, 0, d, alive, cmds)

\* redraw's loop over shapes: Query<Entity, Or<(With<Vertex>, With<Line>)>>
RECURSIVE despawn_shapes(_, _)
despawn_shapes(shapes, cmds) ==
    IF shapes = {} THEN cmds
    ELSE LET id == CHOOSE x \in shapes : \A y \in shapes : x <= y IN
         despawn_shapes(shapes \ {id}, Append(cmds, Despawn(id)))

\* the query of redraw with the Line filter left out
shape_query_vertices(alive) == {e.id : e \in {x \in alive : x.tag \in {"Vertex"}}}

shape_query(alive) == {e.id : e \in {x \in alive : x.tag \in {"Vertex", "Line"}}}

\* the commands of a stage applied to the world, in order
RECURSIVE apply_commands(_, _, _)
apply_commands(alive, cmds, i) ==
    IF i > Len(cmds) THEN alive
    ELSE IF cmds[i].op = "spawn"
         THEN apply_commands(alive \cup {cmds[i].e}, cmds, i + 1)
         ELSE apply_commands({e \in alive : e.id # cmds[i].id}, cmds, i + 1)

\* An Entity id means nothing beyond identity, and no system of this program
\* keeps one from frame to frame (redraw queries the shapes afresh): between
\* stages the ids alive are renamed 0, 1, 2, ... in their order, which keeps
\* the worlds that differ only in the names of their entities one state.
compact(alive) ==
    {[e EXCEPT !.id = Cardinality({x \in alive : x.id < e.id})] : e \in alive}

\* setup_input: the camera and the text of four sections
setup_input_commands(alive, cmds) ==
    LET camera == Entity(fresh_id(alive, cmds), "Camera", 0, 0, 0)
        c1 == Append(cmds, Spawn(camera))
        label == Entity(fresh_id(alive, c1), "InputText", 0, 0, 0)
    IN  Append(c1, Spawn(label))

setup_input_text(d) ==
    [i \in 0..3 |-> CASE i = 0 -> <<"\n">>
                      [] i = 1 -> <<"{">>
                      [] i = 2 -> to_string(d.polygon)
                      [] i = 3 -> <<"}">>]

\* Events<Redraw>: events_a holds the events of the frame before, events_b
\* those of this frame; `read` is how many of them, oldest first, the
\* EventReader of redraw has consumed; `eager` is whether
\* event.iter().len() consumes what it counts (it does when iter() advances
\* the reader at once, it does not when the reader advances only as the
\* iterator is stepped: the Bevy release the build links decides).
NoEvents(eager) == [a |-> 0, b |-> 0, read |-> 0, eager |-> eager]

\* an update that clears both buffers instead of swapping them
events_update_clear(ev) == [ev EXCEPT !.a = 0, !.b = 0, !.read = 0]

\* Events::update_system, first in every frame: drop events_a, swap
events_update(ev) ==
    [ev EXCEPT !.a = ev.b, !.b = 0,
               !.read = IF ev.read > ev.a THEN ev.read - ev.a ELSE 0]

\* EventWriter::send
send(ev) == [ev EXCEPT !.b = ev.b + 1]

\* event.iter().len()
unread(ev) == ev.a + ev.b - ev.read

after_iter(ev) == IF ev.eager THEN [ev EXCEPT !.read = ev.a + ev.b] ELSE ev

(***************************************************************************)
(* keyboard_input.                                                         *)
(***************************************************************************)
\* the keys tested, in the order of the tests
KeyOrder ==
    <<"Key0", "Key1", "Key2", "Key3", "Key4", "Key5", "Key6", "Key7", "Key8",
      "Key9", "Slash">>

key_char(i) == IF i <= 10 THEN DigitChars[i] ELSE "/"

\* the tests of just_pressed, each followed by its push
RECURSIVE push_keys(_, _, _)
push_keys(t, i, pressed) ==
    IF i > Len(KeyOrder) THEN t
    ELSE push_keys(IF KeyOrder[i] \in pressed THEN Append(t, key_char(i)) ELSE t,
                   i + 1, pressed)

\* String::pop
pop(t) == IF t = <<>> THEN t ELSE SubSeq(t, 1, Len(t) - 1)

\* the edits with Backspace applied before the pushes
edit_pop_first(t, pressed) ==
    push_keys(IF "Back" \in pressed THEN pop(t) ELSE t, 1, pressed)

\* the buffer after the edits of one run
edit(t, pressed) ==
    LET pushed == push_keys(t, 1, pressed) IN
    IF "Back" \in pressed THEN pop(pushed) ELSE pushed

\* " ".repeat(count)
RECURSIVE repeat_space(_)
repeat_space(count) ==
    IF count = 0 THEN <<>> ELSE <<" ">> \o repeat_space(count - 1)

\* the keys the frames of the model press (the buffer starts as "5/2")
TypedKeys == {"Key0", "Key1", "Slash", "Back"}

PressedSets == {ks \in SUBSET TypedKeys : Cardinality(ks) <= MaxPressed}

\* the buffers the model types: bounded length, bounded numbers
within_bounds(t) ==
    /\ Len(t) <= MaxBuf
    /\ from_str(t).ok => from_str(t).p.n <= MaxN /\ from_str(t).p.k <= MaxN

(***************************************************************************)
(* scale.                                                                  *)
(***************************************************************************)
\* the MouseWheel events of the model: one line up, a hundred pixels down,
\* and a sideways scroll (y = 0.0)
WheelEvents ==
    { [unit |-> "Line", y |-> 1],
      [unit |-> "Line", y |-> 0],
      [unit |-> "Pixel", y |-> 0 - 100] }

WheelSeqs == UNION {[1..len -> WheelEvents] : len \in 0..MaxScroll}

\* the match on e.unit, in hundredths of a line: e.y, or e.y * 0.01
delta(e) == IF e.unit = "Line" THEN e.y * 100 ELSE e.y

\* the loop over scroll_events
RECURSIVE scroll_sum(_, _, _)
scroll_sum(evs, i, scroll) ==
    IF i > Len(evs) THEN scroll
    ELSE scroll_sum(evs, i + 1, scroll + delta(evs[i]))

(***************************************************************************)
(* Spec: the frames of the application.                                    *)
(***************************************************************************)
\* the result variable before any call
NoResult == [ok |-> FALSE, p |-> Polygon(0, 0), err |-> 0 - 1]

Systems == {"keyboard_input", "scale", "redraw"}

\* the application before its startup stage
AppInit ==
    /\ pc = "startup"
    /\ todo = {}
    /\ data = from_world
    /\ text = [i \in 0..3 |-> <<>>]
    /\ world = {}
    /\ commands = <<>>
    /\ redraw_events \in {NoEvents(eager) : eager \in BOOLEAN}
    /\ drawn = from_world
    /\ parsed = from_world.polygon

\* the startup stage: setup_input and create_shape, then their commands
Startup ==
    /\ pc = "startup"
    /\ text' = setup_input_text(data)
    /\ world' = compact(apply_commands(world,
                    create_shape(data, world, setup_input_commands(world, commands)), 1))
    /\ drawn' = data
    /\ pc' = "idle"
    /\ UNCHANGED <<todo, data, commands, redraw_events, parsed>>

\* a frame begins: the events are updated, the Update stage starts.  What the
\* frame's input is (the keys just pressed, the MouseWheel events) is chosen
\* where the one system that reads it runs.
BeginFrame ==
    /\ pc = "idle"
    /\ redraw_events' = events_update(redraw_events)
    /\ todo' = Systems
    /\ pc' = "update"
    /\ UNCHANGED <<data, text, world, commands, drawn, parsed>>

\* keyboard_input storing the polygon of the Result whether Ok or Err
keyboard_input_store_always(pressed) ==
    /\ pc = "update"
    /\ "keyboard_input" \in todo
    /\ within_bounds(edit(text[2], pressed))
    /\ LET t == edit(text[2], pressed)
           r == from_str(t)
       IN  /\ data' = [data EXCEPT !.polygon = r.p]
           /\ IF r.ok
              THEN /\ text' = [text EXCEPT ![2] = t, ![0] = <<"\n">>]
                   /\ redraw_events' = send(redraw_events)
                   /\ parsed' = r.p
              ELSE /\ text' = [text EXCEPT ![2] = t,
                                           ![0] = repeat_space(r.err + 1) \o <<"v", "\n">>]
                   /\ UNCHANGED <<redraw_events, parsed>>
    /\ todo' = todo \ {"keyboard_input"}
    /\ UNCHANGED <<pc, world, commands, drawn>>

\* keyboard_input with the marker of as many spaces as the error position
keyboard_input_marker_at_index(pressed) ==
    /\ pc = "update"
    /\ "keyboard_input" \in todo
    /\ within_bounds(edit(text[2], pressed))
    /\ LET t == edit(text[2], pressed)
           r == from_str(t)
       IN  IF r.ok
           THEN /\ text' = [text EXCEPT ![2] = t, ![0] = <<"\n">>]
                /\ data' = [data EXCEPT !.polygon = r.p]
                /\ redraw_events' = send(redraw_events)
                /\ parsed' = r.p
           ELSE /\ text' = [text EXCEPT ![2] = t,
                                        ![0] = repeat_space(r.err) \o <<"v", "\n">>]
                /\ UNCHANGED <<data, redraw_events, parsed>>
    /\ todo' = todo \ {"keyboard_input"}
    /\ UNCHANGED <<pc, world, commands, drawn>>

\* keyboard_input storing a Data with the polygon parsed and the initial scale
keyboard_input_reset_scale(pressed) ==
    /\ pc = "update"
    /\ "keyboard_input" \in todo
    /\ within_bounds(edit(text[2], pressed))
    /\ LET t == edit(text[2], pressed)
           r == from_str(t)
       IN  IF r.ok
           THEN /\ text' = [text EXCEPT ![2] = t, ![0] = <<"\n">>]
                /\ data' = [polygon |-> r.p, scale |-> from_world.scale]
                /\ redraw_events' = send(redraw_events)
                /\ parsed' = r.p
           ELSE /\ text' = [text EXCEPT ![2] = t,
                                        ![0] = repeat_space(r.err + 1) \o <<"v", "\n">>]
                /\ UNCHANGED <<data, redraw_events, parsed>>
    /\ todo' = todo \ {"keyboard_input"}
    /\ UNCHANGED <<pc, world, commands, drawn>>

keyboard_input(pressed) ==
    /\ pc = "update"
    /\ "keyboard_input" \in todo
    /\ within_bounds(edit(text[2], pressed))
    /\ LET t == edit(text[2], pressed)
           r == from_str(t)
       IN  IF r.ok
           THEN /\ text' = [text EXCEPT ![2] = t, ![0] = <<"\n">>]
                /\ data' = [data EXCEPT !.polygon = r.p]
                /\ redraw_events' = send(redraw_events)
                /\ parsed' = r.p
           ELSE /\ text' = [text EXCEPT ![2] = t,
                                        ![0] = repeat_space(r.err + 1) \o <<"v", "\n">>]
                /\ UNCHANGED <<data, redraw_events, parsed>>
    /\ todo' = todo \ {"keyboard_input"}
    /\ UNCHANGED <<pc, world, commands, drawn>>

KeyboardInput == \E pressed \in PressedSets : keyboard_input(pressed)

\* scale testing scroll > 0.0 instead of scroll != 0.0
scale_positive_only(scroll_events) ==
    /\ pc = "update"
    /\ "scale" \in todo
    /\ LET scroll == scroll_sum(scroll_events, 1, 0) IN
        /\ data.scale + scroll \in 0..(100 * MaxZoom)
        /\ IF scroll > 0
           THEN /\ data' = [data EXCEPT !.scale = data.scale + scroll]
                /\ redraw_events' = send(redraw_events)
           ELSE UNCHANGED <<data, redraw_events>>
    /\ todo' = todo \ {"scale"}
    /\ UNCHANGED <<pc, text, world, commands, drawn, parsed>>

scale(scroll_events) ==
    /\ pc = "update"
    /\ "scale" \in todo
    /\ LET scroll == scroll_sum(scroll_events, 1, 0) IN
        /\ data.scale + scroll \in 0..(100 * MaxZoom)
        /\ IF scroll # 0
           THEN /\ data' = [data EXCEPT !.scale = data.scale + scroll]
                /\ redraw_events' = send(redraw_events)
           ELSE UNCHANGED <<data, redraw_events>>
    /\ todo' = todo \ {"scale"}
    /\ UNCHANGED <<pc, text, world, commands, drawn, parsed>>

Scale == \E scroll_events \in WheelSeqs : scale(scroll_events)

\* redraw doing nothing when the polygon has no vertex
redraw_skip_empty ==
    /\ pc = "update"
    /\ "redraw" \in todo
    /\ IF unread(redraw_events) > 0 /\ data.polygon.n > 0
       THEN /\ commands' = create_shape(data, world,
                                despawn_shapes(shape_query(world), commands))
            /\ drawn' = data
       ELSE UNCHANGED <<commands, drawn>>
    /\ redraw_events' = after_iter(redraw_events)
    /\ todo' = todo \ {"redraw"}
    /\ UNCHANGED <<pc, data, text, world, parsed>>

redraw ==
    /\ pc = "update"
    /\ "redraw" \in todo
    /\ IF unread(redraw_events) > 0
       THEN /\ commands' = create_shape(data, world,
                                despawn_shapes(shape_query(world), commands))
            /\ drawn' = data
       ELSE UNCHANGED <<commands, drawn>>
    /\ redraw_events' = after_iter(redraw_events)
    /\ todo' = todo \ {"redraw"}
    /\ UNCHANGED <<pc, data, text, world, parsed>>

\* the end of the Update stage: the commands are applied; the frame is over
EndFrame ==
    /\ pc = "update"
    /\ todo = {}
    /\ world' = compact(apply_commands(world, commands, 1))
    /\ commands' = <<>>
    /\ pc' = "idle"
    /\ UNCHANGED <<todo, data, text, redraw_events, drawn, parsed>>

Init ==
    /\ AppInit
    /\ input = <<>>
    /\ poly = Polygon(0, 0)
    /\ result = NoResult
    /\ rerendered = <<>>
    /\ pstep = "app"

Next ==
    \/ Startup /\ UNCHANGED pvars
    \/ BeginFrame /\ UNCHANGED pvars
    \/ KeyboardInput /\ UNCHANGED pvars
    \/ Scale /\ UNCHANGED pvars
    \/ redraw /\ UNCHANGED pvars
    \/ EndFrame /\ UNCHANGED pvars

Spec == Init /\ [][Next]_vars

\* The runner's position as it moves on: the startup stage ends; a frame
\* begins; a system of the Update stage that has not run yet runs; the stage
\* ends.  Every step of Next is one of these moves, and wherever one of them
\* is possible a step of Next is (keyboard_input and scale run on any input,
\* the empty one included).
Schedule ==
    \/ pc = "startup" /\ pc' = "idle" /\ todo' = todo
    \/ pc = "idle" /\ pc' = "update" /\ todo' = Systems
    \/ pc = "update" /\ pc' = pc /\ \E system \in todo : todo' = todo \ {system}
    \/ pc = "update" /\ todo = {} /\ pc' = "idle" /\ todo' = todo

\* the frames keep running: the runner never stops moving on
FairSpec == Spec /\ WF_<<pc, todo>>(Schedule)

\* the application as the pure-function specifications leave it: not started
AppUnused ==
    /\ AppInit
    /\ redraw_events.eager

(***************************************************************************)
(* ParseSpec: from_str applied to every bounded input.                     *)
(***************************************************************************)
RECURSIVE Strings(_, _)
Strings(len, chars) ==
    IF len = 0 THEN {<<>>}
    ELSE LET shorter == Strings(len - 1, chars) IN
         shorter \cup {Append(s, c) : s \in {t \in shorter : Len(t) = len - 1}, c \in chars}

\* Longer inputs: signs and other characters around a separator, and numbers
\* that overflow a usize.
LongInputs ==
    { <<"5", "/", "+", "2">>,
      <<"+", "5", "/", "2">>,
      <<"+", "5", "/", "+", "2">>,
      <<"1", "2", "/", "x", "4">>,
      <<"1", "2", "/", "3", "/", "x">>,
      <<"x", "/", "1", "2", "/", "3">>,
      <<"1", "2", "/", "3", "4">>,
      <<"1","8","4","4","6","7","4","4","0","7","3","7","0","9","5","5","1","6","1","6">>,
      <<"9","9","9","9","9","9","9","9","9","9","9","9","9","9","9","9","9","9","9","9">>,
      <<"0","1","8","4","4","6","7","4","4","0","7","3","7","0","9","5","5","1","6","1","6">>,
      <<"1","0","0","0","0","0","0","0","0","0","0","0","0","0","0","0","0","0","0","0","0">>,
      <<"5","/","1","8","4","4","6","7","4","4","0","7","3","7","0","9","5","5","1","6","1","6">>,
      <<"1","8","4","4","6","7","4","4","0","7","3","7","0","9","5","5","1","6","1","6","/","5">> }

Inputs == Strings(MaxLen, Alphabet) \cup Strings(MaxSlashLen, SlashAlphabet) \cup LongInputs

ParseInit ==
    /\ input \in Inputs
    /\ poly = Polygon(0, 0)
    /\ result = NoResult
    /\ rerendered = <<>>
    /\ pstep = "input"
    /\ AppUnused

ParseInput ==
    /\ pstep = "input"
    /\ result' = from_str(input)
    /\ pstep' = "parsed"
    /\ UNCHANGED <<input, poly, rerendered, avars>>

ParseNext == ParseInput

ParseSpec == ParseInit /\ [][ParseNext]_vars

(***************************************************************************)
(* RoundTripSpec: to_string, from_str, to_string on every bounded polygon. *)
(***************************************************************************)
RoundTripInit ==
    /\ poly \in {Polygon(n, k) : n \in 0..MaxVal, k \in 0..MaxVal}
    /\ input = <<>>
    /\ result = NoResult
    /\ rerendered = <<>>
    /\ pstep = "polygon"
    /\ AppUnused

Render ==
    /\ pstep = "polygon"
    /\ input' = to_string(poly)
    /\ pstep' = "rendered"
    /\ UNCHANGED <<poly, result, rerendered, avars>>

Reparse ==
    /\ pstep = "rendered"
    /\ result' = from_str(input)
    /\ pstep' = "reparsed"
    /\ UNCHANGED <<input, poly, rerendered, avars>>

Rerender ==
    /\ pstep = "reparsed"
    /\ result.ok
    /\ rerendered' = to_string(result.p)
    /\ pstep' = "rerendered"
    /\ UNCHANGED <<input, poly, result, avars>>

RoundTripNext == Render \/ Reparse \/ Rerender

RoundTripSpec == RoundTripInit /\ [][RoundTripNext]_vars

(***************************************************************************)
(* ShapeSpec: redraw's regeneration, twice in succession, on every bounded *)
(* Data.  It starts between two frames, the shape of the startup stage in  *)
(* the world and the Data already stored by keyboard_input and scale.      *)
(***************************************************************************)
ShapeData ==
    {[polygon |-> Polygon(n, k), scale |-> 100 * z] :
        n \in 0..MaxShape, k \in 0..MaxShape, z \in 0..MaxZoom}

ShapeInit ==
    /\ pc = "idle"
    /\ todo = {}
    /\ data \in ShapeData
    /\ text = setup_input_text(from_world)
    /\ world = compact(apply_commands({},
                    create_shape(from_world, {}, setup_input_commands({}, <<>>)), 1))
    /\ commands = <<>>
    /\ redraw_events = NoEvents(TRUE)
    /\ drawn = from_world
    /\ parsed = data.polygon
    /\ input = <<>>
    /\ poly = Polygon(0, 0)
    /\ result = NoResult
    /\ rerendered = <<>>
    /\ pstep = "stored"

\* the body of redraw when there is a Redraw event to read
Regenerate ==
    /\ pstep \in {"stored", "shown"}
    /\ commands' = create_shape(data, world,
                        despawn_shapes(shape_query(world), commands))
    /\ drawn' = data
    /\ pstep' = IF pstep = "stored" THEN "queued" ELSE "requeued"
    /\ UNCHANGED <<input, poly, result, rerendered>>
    /\ UNCHANGED <<pc, todo, data, text, world, redraw_events, parsed>>

\* the end of the stage: the commands are applied
Apply ==
    /\ pstep \in {"queued", "requeued"}
    /\ world' = compact(apply_commands(world, commands, 1))
    /\ commands' = <<>>
    /\ pstep' = IF pstep = "queued" THEN "shown" ELSE "reshown"
    /\ UNCHANGED <<input, poly, result, rerendered>>
    /\ UNCHANGED <<pc, todo, data, text, redraw_events, drawn, parsed>>

ShapeNext == Regenerate \/ Apply

ShapeSpec == ShapeInit /\ [][ShapeNext]_vars

(***************************************************************************)
(* The notation as the claims state it, written without the program's      *)
(* operators: what an unsigned integer literal is, and where separators    *)
(* stand.                                                                  *)
(***************************************************************************)
SlashPositions(s) == {i \in 1..Len(s) : s[i] = "/"}

SlashCount(s) == Cardinality(SlashPositions(s))

AllDigits(s) == \A i \in 1..Len(s) : IsDigit(s[i])

\* a non-empty run of ASCII digits
IsDigits(s) == s # <<>> /\ AllDigits(s)

RECURSIVE Pow10(_)
Pow10(e) == IF e = 0 THEN 1 ELSE 10 * Pow10(e - 1)

RECURSIVE DecValueFrom(_, _)
DecValueFrom(ds, i) ==
    IF i > Len(ds) THEN 0
    ELSE to_digit(ds[i]) * Pow10(Len(ds) - i) + DecValueFrom(ds, i + 1)

\* the number a run of digits denotes
DecValue(ds) == DecValueFrom(ds, 1)

\* the run of digits denotes a number above usize::MAX
ExceedsUsize(ds) ==
    LET lead == {i \in 1..Len(ds) : \A j \in 1..i : ds[j] = "0"}
        sig == SubSeq(ds, Cardinality(lead) + 1, Len(ds))
    IN  \/ Len(sig) > Len(USIZE_MAX_DIGITS)
        \/ /\ Len(sig) = Len(USIZE_MAX_DIGITS)
           /\ \E i \in 1..Len(sig) :
                /\ to_digit(sig[i]) > USIZE_MAX_DIGITS[i]
                /\ \A j \in 1..(i - 1) : to_digit(sig[j]) = USIZE_MAX_DIGITS[j]

\* the digits of an unsigned integer literal as Rust reads one: an optional
\* leading '+', then the digits
LiteralDigits(s) == IF s # <<>> /\ Head(s) = "+" THEN Tail(s) ELSE s

\* s parses as an unsigned integer (usize)
IsUnsigned(s) == IsDigits(LiteralDigits(s)) /\ ~ExceedsUsize(LiteralDigits(s))

UnsignedValue(s) == DecValue(LiteralDigits(s))

\* with exactly one separator: the part before it and the part after it
LeftPart(s) == SubSeq(s, 1, (CHOOSE i \in SlashPositions(s) : TRUE) - 1)

RightPart(s) == SubSeq(s, (CHOOSE i \in SlashPositions(s) : TRUE) + 1, Len(s))

\* zero-based index of the second separator from the left
SecondSlashIndex(s) ==
    (CHOOSE i \in SlashPositions(s) :
        Cardinality({j \in SlashPositions(s) : j < i}) = 1) - 1

\* the grammar  digits ( '/' digits )?
IsNotation(s) ==
    \/ IsDigits(s)
    \/ /\ SlashCount(s) = 1
       /\ IsDigits(LeftPart(s))
       /\ IsDigits(RightPart(s))

\* t is a prefix of some string of the grammar: empty, or digits, or digits
\* followed by one separator and any number of digits
IsNotationPrefix(t) ==
    \/ t = <<>>
    \/ /\ IsDigit(t[1])
       /\ SlashCount(t) <= 1
       /\ \A i \in 1..Len(t) : IsDigit(t[i]) \/ t[i] = "/"

Parsed == pstep = "parsed"

(***************************************************************************)
(* C1: for an input without '/', from_str returns Ok(Polygon{n, k: 1})     *)
(* when the whole input parses as an unsigned integer n, and Err(0) in     *)
(* every other case.                                                       *)
(***************************************************************************)
C1_NoSlash ==
    (Parsed /\ SlashCount(input) = 0) =>
        IF IsUnsigned(input)
        THEN result = Ok(Polygon(UnsignedValue(input), 1))
        ELSE result = Err(0)

\* an input without separator is accepted with a value of several digits, and
\* (C1_WitnessErr) one is refused
C1_Witness ==
    /\ Parsed
    /\ SlashCount(input) = 0
    /\ result.ok
    /\ result.p.n > 99
    /\ result.p.k = 1

(***************************************************************************)
(* C2: for an input with exactly one '/': Err(0) when the left part does   *)
(* not parse as an unsigned integer; Err(index of '/' + 1) when the left   *)
(* part parses and the right part does not; Ok(Polygon{n, k}) when both    *)
(* parse.                                                                  *)
(***************************************************************************)
C2_OneSlash ==
    (Parsed /\ SlashCount(input) = 1) =>
        IF ~IsUnsigned(LeftPart(input)) THEN result = Err(0)
        ELSE IF ~IsUnsigned(RightPart(input))
             THEN result = Err(Len(LeftPart(input)) + 1)
        ELSE result = Ok(Polygon(UnsignedValue(LeftPart(input)),
                                 UnsignedValue(RightPart(input))))

\* the left part has two digits and the right part does not parse: Err(3)
C2_Witness ==
    /\ Parsed
    /\ SlashCount(input) = 1
    /\ Len(LeftPart(input)) = 2
    /\ IsUnsigned(LeftPart(input))
    /\ ~IsUnsigned(RightPart(input))
    /\ result = Err(3)

(***************************************************************************)
(* C3 as stated: for an input with two or more '/', from_str returns an    *)
(* error whose position is the index of the second '/' plus one.           *)
(***************************************************************************)
C3_AfterSecondSlash ==
    (Parsed /\ SlashCount(input) >= 2) =>
        result = Err(SecondSlashIndex(input) + 1)

(***************************************************************************)
(* C3 as amended: for an input with two or more '/', from_str returns an   *)
(* error whose position is the index of the second '/' itself.             *)
(***************************************************************************)
C3_AtSecondSlash ==
    (Parsed /\ SlashCount(input) >= 2) =>
        result = Err(SecondSlashIndex(input))

\* the second separator is not the last character and does not follow the first
C3_Witness ==
    /\ Parsed
    /\ SlashCount(input) >= 2
    /\ SecondSlashIndex(input) = 3
    /\ Len(input) = 5
    /\ IsDigit(input[1])
    /\ ~result.ok
    /\ result.err = 3

(***************************************************************************)
(* C4: for an input with two or more '/', from_str returns Err(p), p the   *)
(* zero-based scan index at which the second '/' is reached, whatever the  *)
(* other characters are; "5//" gives Err(2).                               *)
(***************************************************************************)
\* every character other than the separator replaced by "x"
Skeleton(s) == [i \in 1..Len(s) |-> IF s[i] = "/" THEN "/" ELSE "x"]

\* the number of characters the scan passes while it has counted fewer than
\* two separators
ScanIndex(s) ==
    Cardinality({i \in 1..Len(s) :
        Cardinality({j \in SlashPositions(s) : j <= i}) < 2})

C4_ScanIndex ==
    /\ (Parsed /\ SlashCount(input) >= 2) =>
            /\ ~result.ok
            /\ result.err = ScanIndex(input)
            /\ input[result.err + 1] = "/"
            /\ from_str(Skeleton(input)).err = result.err
    /\ (Parsed /\ input = <<"5", "/", "/">>) => result = Err(2)

\* three separators, the first of them leading
C4_Witness ==
    /\ Parsed
    /\ SlashCount(input) = 3
    /\ input[1] = "/"
    /\ ~result.ok
    /\ result.err = 2

(***************************************************************************)
(* C5: when from_str returns Err(p) on a buffer of digits and '/' (no      *)
(* overflow), the prefix of the buffer before index p is still a prefix    *)
(* of some valid notation  digits ('/' digits)?.                           *)
(***************************************************************************)
DigitsAndSlashes(s) == \A i \in 1..Len(s) : IsDigit(s[i]) \/ s[i] = "/"

C5_ErrorAtFirstInvalid ==
    (/\ Parsed
     /\ DigitsAndSlashes(input)
     /\ \A i \in 1..Len(split(input, 1, <<>>)) : ~ExceedsUsize(split(input, 1, <<>>)[i])
     /\ ~result.ok) =>
        IsNotationPrefix(SubSeq(input, 1, result.err))

(***************************************************************************)
(* C7: from_str returns Ok only if the input is a non-empty run of ASCII   *)
(* digits optionally followed by one '/' and another non-empty run of      *)
(* ASCII digits.                                                           *)
(***************************************************************************)
C7_OnlyGrammar == (Parsed /\ result.ok) => IsNotation(input)

(***************************************************************************)
(* C6: for every Polygon{n, k}, to_string gives "n" when k == 1 and "n/k"  *)
(* otherwise; from_str of the rendering returns Ok of a polygon with the   *)
(* same n and k; rendering that polygon again gives the same string.       *)
(***************************************************************************)
\* ds is the decimal rendering of v: digits, no redundant leading zero
IsDecimalOf(ds, v) ==
    /\ IsDigits(ds)
    /\ Len(ds) > 1 => ds[1] # "0"
    /\ DecValue(ds) = v

C6_RoundTrip ==
    /\ pstep # "polygon" =>
            IF poly.k = 1
            THEN SlashCount(input) = 0 /\ IsDecimalOf(input, poly.n)
            ELSE /\ SlashCount(input) = 1
                 /\ IsDecimalOf(LeftPart(input), poly.n)
                 /\ IsDecimalOf(RightPart(input), poly.k)
    /\ pstep \in {"reparsed", "rerendered"} => result = Ok(poly)
    /\ pstep = "reparsed" => ENABLED Rerender
    /\ pstep = "rerendered" => rerendered = input

\* both renderings happen: a polygon with k = 1 and one with k # 1 and two digits
C6_Witness ==
    /\ pstep = "rerendered"
    /\ poly.n > 9
    /\ poly.k = 1
    /\ rerendered = input

(***************************************************************************)
(* The application as the claims state it.                                 *)
(***************************************************************************)
\* the step just taken is a run of the named system
RunOf(system) == pc = "update" /\ system \in todo /\ system \notin todo'

\* the number of live entities with a marker component
CountOf(tag) == Cardinality({e \in world : e.tag = tag})

\* a MouseWheel event's vertical delta in hundredths of a line: a line is a
\* hundred of them, a pixel is one
Hundredths(e) == IF e.unit = "Pixel" THEN e.y ELSE 100 * e.y

RECURSIVE DeltaSumFrom(_, _)
DeltaSumFrom(evs, i) ==
    IF i > Len(evs) THEN 0 ELSE Hundredths(evs[i]) + DeltaSumFrom(evs, i + 1)

\* the sum of the deltas of the events of a frame
DeltaSum(evs) == DeltaSumFrom(evs, 1)

(***************************************************************************)
(* C8: a parse failure is never destructive.  A run of keyboard_input      *)
(* whose edited buffer fails to parse leaves data.polygon and data.scale   *)
(* unchanged and sends no Redraw; data.polygon always equals the result    *)
(* of the most recent successful parse (initially {n: 5, k: 2}); and the   *)
(* geometry generator only ever reads a polygon that came from a           *)
(* successful parse.                                                       *)
(***************************************************************************)
C8_FailureKeepsShape ==
    /\ [](data.polygon = parsed)
    /\ [][(RunOf("keyboard_input") /\ ~from_str(text'[2]).ok) =>
            (data' = data /\ redraw_events' = redraw_events)]_vars
    /\ [][(drawn' # drawn \/ Len(commands') > Len(commands)) =>
            (drawn' = data /\ drawn'.polygon = parsed)]_vars

\* keyboard_input has just run on a buffer that does not parse, after an
\* earlier edit replaced the initial polygon; it is the first system of its
\* frame and no Redraw was sent
C8_Witness ==
    /\ pc = "update"
    /\ todo = {"scale", "redraw"}
    /\ ~from_str(text[2]).ok
    /\ Len(text[2]) > 1
    /\ data.polygon # from_world.polygon
    /\ redraw_events.b = 0

(***************************************************************************)
(* C9: between frames (the commands of the stage applied) the world holds  *)
(* exactly n Vertex and exactly n Line entities, n the data.polygon.n the  *)
(* most recent generation read; and when a stage ends after a              *)
(* regeneration, a despawn is queued for every Vertex and Line entity of   *)
(* the shape before.                                                       *)
(***************************************************************************)
C9_ShapeCardinality ==
    /\ pc = "idle" =>
            /\ CountOf("Vertex") = drawn.polygon.n
            /\ CountOf("Line") = drawn.polygon.n
            /\ Cardinality(world) = 2 * drawn.polygon.n + 2
    /\ (pc = "update" /\ commands # <<>>) =>
            \A e \in world :
                e.tag \in {"Vertex", "Line"} =>
                    \E i \in 1..Len(commands) :
                        commands[i].op = "despawn" /\ commands[i].id = e.id

\* a shape of ten or more vertices has replaced the initial one of five
C9_Witness ==
    /\ pc = "idle"
    /\ drawn.polygon.n >= 10
    /\ CountOf("Vertex") = drawn.polygon.n
    /\ CountOf("Line") = drawn.polygon.n

Tagged(tag) == {e \in world : e.tag = tag}

Nth(tag, i) ==
    CHOOSE e \in Tagged(tag) : Cardinality({x \in Tagged(tag) : x.id < e.id}) = i

\* the commands of the latest regeneration have been applied
Shown == pstep \in {"stored", "shown", "reshown"}

(***************************************************************************)
(* C11: star property.  For every polygon {n, k} with n >= 1, the i-th     *)
(* generated line (i in 0..n-1) starts at the position of the i-th         *)
(* generated vertex and ends at the position of vertex (i + k) mod n of    *)
(* the same regular n-gon (positions as angle indices modulo n); for       *)
(* k = 1 every line joins adjacent vertices, for {5, 2} every line joins   *)
(* a vertex to the one 2 steps ahead.                                      *)
(***************************************************************************)
C11_StarProperty ==
    (Shown /\ drawn.polygon.n >= 1) =>
        LET n == drawn.polygon.n
            k == drawn.polygon.k
        IN  /\ CountOf("Vertex") = n
            /\ CountOf("Line") = n
            /\ \A i \in 0..(n - 1) :
                    /\ Nth("Vertex", i).at = i
                    /\ Nth("Vertex", i).scale = drawn.scale
                    /\ Nth("Line", i).at = Nth("Vertex", i).at
                    /\ Nth("Line", i).to = Nth("Vertex", (i + k) % n).at
                    /\ Nth("Line", i).scale = drawn.scale
                    /\ k = 1 => Nth("Line", i).to = Nth("Vertex", (i + 1) % n).at
                    /\ (n = 5 /\ k = 2) =>
                            Nth("Line", i).to = Nth("Vertex", (i + 2) % 5).at

\* the heptagram {7, 3} has replaced the pentagram; its line 5 wraps around
\* to vertex 1
C11_Witness ==
    /\ pstep = "shown"
    /\ drawn.polygon = Polygon(7, 3)
    /\ CountOf("Line") = 7
    /\ Nth("Line", 5).at = 5
    /\ Nth("Line", 5).to = 1

(***************************************************************************)
(* C12: regeneration is triggered only by real changes.  In a frame where  *)
(* no key is pressed and the scroll deltas sum to 0, no system sends a     *)
(* Redraw event (and so redraw despawns and respawns nothing for it).      *)
(***************************************************************************)
C12_QuietFrameNoRedraw ==
    [][(\/ keyboard_input({})
        \/ \E evs \in WheelSeqs : DeltaSum(evs) = 0 /\ scale(evs)) =>
            redraw_events'.b = redraw_events.b]_vars

(***************************************************************************)
(* C13: every accepted edit is eventually displayed.  Whenever              *)
(* keyboard_input or scale has stored new Data and sent Redraw, then        *)
(* under every order of the three systems within a frame, the frames        *)
(* running on, redraw eventually regenerates the shape from the Data        *)
(* current at that time; while the stored Data is not the Data drawn, a     *)
(* Redraw event is still there for redraw to read (none is lost), and a     *)
(* run of redraw that finds one regenerates from the current Data.          *)
(***************************************************************************)
\* a Redraw event is there that the reader of redraw has not read
Pending == redraw_events.a + redraw_events.b > redraw_events.read

C13_EditDisplayed ==
    /\ [](data # drawn => Pending)
    /\ [][(RunOf("redraw") /\ Pending) => drawn' = data]_vars
    /\ (data # drawn) ~> (drawn = data)

\* an edit stored after redraw had run in its frame waits over the end of
\* the frame, after an earlier edit was displayed
C13_Witness ==
    /\ pc = "idle"
    /\ data # drawn
    /\ drawn # from_world
    /\ Pending

(***************************************************************************)
(* C14: the caret marker tracks the parse state.  After every run of       *)
(* keyboard_input, text section 0 is "\n" if and only if the buffer (text  *)
(* section 2) parses; otherwise it is p + 1 spaces followed by "v\n", p    *)
(* the error position from_str returns for the buffer (the extra space is  *)
(* for the '{' of section 1).                                              *)
(***************************************************************************)
Spaces(count) == [i \in 1..count |-> " "]

MarkerFor(t) ==
    IF from_str(t).ok THEN <<"\n">>
    ELSE Spaces(from_str(t).err + 1) \o <<"v", "\n">>

C14_CaretMarker ==
    /\ [][RunOf("keyboard_input") =>
            /\ text'[0] = MarkerFor(text'[2])
            /\ text'[0] = <<"\n">> <=> from_str(text'[2]).ok
            /\ text'[1] = <<"{">>]_vars
    /\ [](pc # "startup" => text[0] = MarkerFor(text[2]))

\* keyboard_input has run on a buffer of three characters refused at
\* position 2: the marker is three spaces and "v\n"
C14_Witness ==
    /\ pc = "update"
    /\ "keyboard_input" \notin todo
    /\ Len(text[2]) = 3
    /\ ~from_str(text[2]).ok
    /\ from_str(text[2]).err = 2
    /\ text[0] = <<" ", " ", " ", "v", "\n">>

(***************************************************************************)
(* C15: scale and polygon are independent.  The scale system never         *)
(* modifies data.polygon or the text; keyboard_input never modifies        *)
(* data.scale; redraw, and create_shape in the startup stage, modify       *)
(* neither data.polygon nor data.scale, and redraw leaves the text alone.  *)
(***************************************************************************)
C15_Independent ==
    /\ [][RunOf("scale") =>
            (data'.polygon = data.polygon /\ text' = text)]_vars
    /\ [][RunOf("keyboard_input") => data'.scale = data.scale]_vars
    /\ [][RunOf("redraw") => (data' = data /\ text' = text)]_vars
    /\ [][(pc = "startup" /\ pc' = "idle") => data' = data]_vars

\* keyboard_input has run and stored a typed polygon while the scale is
\* zoomed
C15_Witness ==
    /\ pc = "update"
    /\ "keyboard_input" \notin todo
    /\ data.scale > 0
    /\ data.polygon = Polygon(10, 1)
    /\ text[2] = <<"1", "0">>

(***************************************************************************)
(* C16: zero-vertex polygon.  The buffer "0" (and "0/k") parses to a       *)
(* polygon with n = 0; generating a shape for n = 0 spawns no Vertex and   *)
(* no Line entity, while a regeneration for n = 0 still despawns every     *)
(* entity of the shape before.                                             *)
(***************************************************************************)
\* "0", or "0/" followed by digits
ZeroNotation(t) ==
    \/ t = <<"0">>
    \/ /\ Len(t) >= 3
       /\ t[1] = "0"
       /\ t[2] = "/"
       /\ IsDigits(SubSeq(t, 3, Len(t)))

ZeroPolygon(t) ==
    Polygon(0, IF Len(t) = 1 THEN 1 ELSE DecValue(SubSeq(t, 3, Len(t))))

C16_ZeroVertices ==
    /\ [][(RunOf("keyboard_input") /\ ZeroNotation(text'[2])) =>
            /\ text'[0] = <<"\n">>
            /\ data'.polygon = ZeroPolygon(text'[2])]_vars
    /\ [][(RunOf("redraw") /\ Pending /\ data.polygon.n = 0) =>
            /\ \A i \in 1..Len(commands') : commands'[i].op = "despawn"
            /\ {commands'[i].id : i \in 1..Len(commands')} =
                    {e.id : e \in Tagged("Vertex") \cup Tagged("Line")}]_vars
    /\ []((pc = "idle" /\ drawn.polygon.n = 0) =>
            (Tagged("Vertex") = {} /\ Tagged("Line") = {}))

\* "0" has been typed while the shape of a pentagon was shown: redraw has
\* queued the despawn of its five vertices and five lines and no spawn
C16_Witness ==
    /\ pc = "update"
    /\ text[2] = <<"0">>
    /\ data.polygon = Polygon(0, 1)
    /\ drawn = data
    /\ Len(commands) = 10
    /\ Cardinality(Tagged("Vertex")) = 5
    /\ \A i \in 1..Len(commands) : commands[i].op = "despawn"

(***************************************************************************)
(* C17: regeneration is idempotent.  Running redraw twice in succession    *)
(* with the same data.polygon and data.scale leaves the world with a       *)
(* shape equivalent to the one after the first run: as many Vertex and     *)
(* Line entities, with the same vertex positions and line endpoints.       *)
(***************************************************************************)
TaggedIn(alive, tag) == {e \in alive : e.tag = tag}

NthIn(alive, tag, i) ==
    CHOOSE e \in TaggedIn(alive, tag) :
        Cardinality({x \in TaggedIn(alive, tag) : x.id < e.id}) = i

\* the shape a world shows: the positions of its vertices and the endpoints
\* of its lines, in the order of generation, whatever the entities' ids are
ShapeIn(alive) ==
    [vertices |->
        [i \in 0..(Cardinality(TaggedIn(alive, "Vertex")) - 1) |->
            [at |-> NthIn(alive, "Vertex", i).at,
             scale |-> NthIn(alive, "Vertex", i).scale]],
     lines |->
        [i \in 0..(Cardinality(TaggedIn(alive, "Line")) - 1) |->
            [at |-> NthIn(alive, "Line", i).at,
             to |-> NthIn(alive, "Line", i).to,
             scale |-> NthIn(alive, "Line", i).scale]]]

C17_Idempotent ==
    [][(pstep = "requeued" /\ pstep' = "reshown" /\ drawn = data) =>
        /\ ShapeIn(world') = ShapeIn(world)
        /\ Cardinality(world') = Cardinality(world)]_vars

\* the second regeneration of the hexagram {6, 4} has been applied
C17_Witness ==
    /\ pstep = "reshown"
    /\ drawn.polygon = Polygon(6, 4)
    /\ drawn.scale > 0
    /\ Cardinality(TaggedIn(world, "Vertex")) = 6
    /\ Cardinality(TaggedIn(world, "Line")) = 6

(***************************************************************************)
(* C18: the error position never points past the end of the input.  For    *)
(* every input s, if from_str(s) returns Err(p) then 0 <= p <= the number  *)
(* of characters of s, and p equals that number only when the input is     *)
(* incomplete: it is empty, or it ends with its only '/' (as "5/").        *)
(***************************************************************************)
\* a number is still to be typed: nothing is there yet, or the divisor
\* after the separator is missing
Incomplete(s) ==
    \/ s = <<>>
    \/ SlashCount(s) = 1 /\ s[Len(s)] = "/" /\ IsUnsigned(LeftPart(s))

C18_PositionInRange ==
    (Parsed /\ ~result.ok) =>
        /\ result.err >= 0
        /\ result.err <= Len(input)
        /\ result.err = Len(input) => Incomplete(input)

\* the position is the length of the input: two digits and a separator
C18_Witness ==
    /\ Parsed
    /\ ~result.ok
    /\ Len(input) = 3
    /\ result.err = 3
    /\ input[3] = "/"

(***************************************************************************)
(* C19: the buffer starts as "5/2" and, after any frames of key presses,   *)
(* holds only the characters '0'..'9' and '/'.  Within one frame the       *)
(* digits of the keys pressed are appended in the order 0..9, then '/',    *)
(* and Backspace is applied last: it removes the last character, which     *)
(* may be one appended in the same frame; on an empty buffer it leaves     *)
(* the buffer empty.                                                       *)
(***************************************************************************)
\* (In the third conjunct a run of keyboard_input on `pressed` stores
\* edit(text[2], pressed), so the middle disjunct follows from the last one:
\* it only spares evaluating the whole action for the sets that were not
\* pressed.)
DigitKeyNames ==
    <<"Key0", "Key1", "Key2", "Key3", "Key4", "Key5", "Key6", "Key7", "Key8",
      "Key9">>

\* the digit a digit key types
DigitOf(key) == CHOOSE d \in 0..9 : DigitKeyNames[d + 1] = key

\* the characters of a set of digits, in ascending order
RECURSIVE Ascending(_)
Ascending(ds) ==
    IF ds = {} THEN <<>>
    ELSE LET least == CHOOSE x \in ds : \A y \in ds : x <= y IN
         <<DigitChars[least + 1]>> \o Ascending(ds \ {least})

Typed(pressed) ==
    Ascending({DigitOf(key) : key \in pressed \ {"Slash", "Back"}})
        \o (IF "Slash" \in pressed THEN <<"/">> ELSE <<>>)

Edited(t, pressed) ==
    LET full == t \o Typed(pressed) IN
    IF "Back" \in pressed /\ full # <<>>
    THEN SubSeq(full, 1, Len(full) - 1)
    ELSE full

C19_BufferEdits ==
    /\ [][(pc = "startup" /\ pc' = "idle") => text'[2] = <<"5", "/", "2">>]_vars
    /\ [](pc # "startup" => DigitsAndSlashes(text[2]))
    /\ [][RunOf("keyboard_input") =>
            \A pressed \in PressedSets :
                \/ text'[2] = Edited(text[2], pressed)
                \/ text'[2] # edit(text[2], pressed)
                \/ ~keyboard_input(pressed)]_vars
    /\ [][(keyboard_input({"Back"}) /\ text[2] = <<>>) => text'[2] = <<>>]_vars

\* keyboard_input has run on a buffer typed from the empty one: '1' stands
\* after '0' and '/' after both
C19_Witness ==
    /\ pc = "update"
    /\ "keyboard_input" \notin todo
    /\ text[2] = <<"0", "1", "/">>
    /\ text[0] = <<" ", " ", " ", " ", "v", "\n">>

====
